---- MODULE Spec2Model ----
(***************************************************************************)
(* The opaque key/value cache of lib/Basic/Cache.cpp: a DenseMap from      *)
(* caller-owned key handles to caller-owned value handles, guarded by one  *)
(* mutex, with hashing, equality and destruction delegated to callbacks.   *)
(* Every handler is modelled statement by statement, one action per        *)
(* statement, so that threads interleave exactly where the code allows.    *)
(***************************************************************************)
EXTENDS Integers, Sequences, FiniteSets, TLC

(* ------------------------------ bounds --------------------------------- *)

NumThreads == 2
MaxKey == 3
MaxValue == 2
MaxCost == 1
MaxComponents == 6
MaxVaried == 3
MaxSize == 3
MaxNumber == 2
MaxChainSize == 2

Threads == 1..NumThreads
Keys == 1..MaxKey
Values == 1..MaxValue
Costs == 0..MaxCost

(* --------------------------- program constants -------------------------- *)

\* nullptr: an unset key, value or out-parameter.
NULL == 0

\* The mutex when no thread owns it.
Unlocked == 0

\* DenseMapInfo<void *>::getEmptyKey() and getTombstoneKey(): the two pointer
\* values the map reserves for its free and its erased buckets.
EmptyKey == -4096
TombstoneKey == -8192

\* Entries.end(): what find returns when no bucket matches.
end == [Key |-> NULL, Value |-> NULL]

(* ------------------------------ state ----------------------------------- *)

VARIABLES
    Entries,    \* DefaultCache::Entries, the set of stored (Key, Value) buckets
    Mux,        \* DefaultCache::Mux, its owner or Unlocked
    pc,         \* each thread's position
    Key,        \* each thread's Key argument
    Value,      \* each thread's Value argument
    Cost,       \* each thread's Cost argument
    Entry,      \* each thread's iterator Entry
    iter,       \* removeAll: the buckets the range-for has yet to visit
    ret,        \* each thread's return value
    Value_out,  \* each thread's *Value_out
    log,        \* the destroy callbacks the thread's current call has invoked
    pre,        \* Entries as the thread's current call found it when it locked
    Abs,        \* the abstract key-to-value map, in lock order
    exp,        \* what the abstract map answers to the thread's current call
    prevOp,     \* the call that returned last
    stale,      \* the value the thread holds was passed to valueDestroyCB
    mine,       \* the pair the thread has set, while distinct holds
    distinct,   \* so far every thread has called setAndRetain at most once, on
                \* pairwise non-equivalent keys, and then only getAndRetain
    CBs,        \* DefaultCache::CBs, the callback table given to create
    live,       \* the DefaultCache behind Impl has not been deleted
    retTo,      \* where the thread's removeAll returns to
    keysOut,    \* per key handle: times stored by setAndRetain, less the
                \* times passed to keyDestroyCB
    valuesOut,  \* per value handle: times stored by setAndRetain, less the
                \* times passed to valueDestroyCB
    input,      \* the arguments of the function under evaluation
    result      \* what it returned

vars == <<Entries, Mux, pc, Key, Value, Cost, Entry, iter, ret, Value_out,
          log, pre, Abs, exp, prevOp, stale, mine, distinct,
          CBs, live, retTo, keysOut, valuesOut, input, result>>

frame == <<Key, Value, Cost>>
ghost == <<Abs, exp, prevOp, mine, distinct>>
scenario == <<mine, distinct>>
tally == <<keysOut, valuesOut>>
outer == <<CBs, live, retTo, input, result>>

(* ----------------------------- callbacks -------------------------------- *)

\* The callback tables a caller may give to create. Under "classes" key handles
\* 1 and 2 denote one key, 3 and 4 the next, and so on; under "handles" every
\* handle is a key of its own; "strict" and "never" are equality callbacks
\* that are not reflexive.
Tables == {"classes", "handles", "strict", "never"}

\* CallBacks::keyIsEqualCB as the caller supplies it.
keyIsEqualCB(a, b) ==
    CASE CBs = "classes" -> (a + 1) \div 2 = (b + 1) \div 2
      [] CBs = "handles" -> a = b
      [] CBs = "strict" -> (a + 1) \div 2 = (b + 1) \div 2 /\ a # b
      [] CBs = "never" -> FALSE

\* CallBacks::keyHashCB, which agrees with keyIsEqualCB.
keyHashCB(k) == (k + 1) \div 2

KeyDestroyed(k) == [cb |-> "keyDestroyCB", arg |-> k]
ValueDestroyed(v) == [cb |-> "valueDestroyCB", arg |-> v]

(* ------------------------- DenseMapInfo, DenseMap ----------------------- *)

\* DenseMapInfo<DefaultCacheKey>::getHashValue: the callback's hash, mixed by
\* DenseMapInfo<uintptr_t>::getHashValue (times 37, cut to unsigned: no hash of
\* the model reaches 2^32).
getHashValue(K) == keyHashCB(K) * 37

\* An isEqual that is the callback and nothing else.
isEqualCallbackOnly(LHS, RHS) == keyIsEqualCB(LHS, RHS)

\* isEqual without its last line: two handles are one key only when they are
\* one handle.
isEqualIdentity(LHS, RHS) == LHS = RHS

\* DenseMapInfo<DefaultCacheKey>::isEqual
isEqual(LHS, RHS) ==
    IF LHS = RHS THEN TRUE
    ELSE IF \/ LHS = EmptyKey \/ LHS = TombstoneKey
            \/ RHS = EmptyKey \/ RHS = TombstoneKey THEN FALSE
    ELSE keyIsEqualCB(LHS, RHS)

\* A find that stops at the first bucket in use, whatever its key.
findAnyBucket(CKey) == Entries

\* Entries.find(CKey): the buckets the probe from CKey's hash accepts.
find(CKey) ==
    {e \in Entries : getHashValue(e.Key) = getHashValue(CKey) /\ isEqual(CKey, e.Key)}

\* An erase that leaves the bucket in place.
eraseNothing(E) == Entries

\* Entries.erase(Entry)
erase(E) == Entries \ {E}

\* Entries[CKey] = V: the bucket CKey finds gets the value, and a new bucket
\* is made when it finds none.
insert(CKey, V) ==
    IF find(CKey) = {}
    THEN Entries \cup {[Key |-> CKey, Value |-> V]}
    ELSE LET b == CHOOSE e \in find(CKey) : TRUE
         IN  (Entries \ {b}) \cup {[Key |-> b.Key, Value |-> V]}

\* A clear that is left out.
clearNothing == Entries

\* Entries.clear()
clear == {}

\* A lock that does not wait for the owner to unlock.
MuxLockUnguarded(t) == Mux' = t

\* llvm::sys::ScopedLock L(DCache.Mux): blocks until the mutex is free.
MuxLock(t) == Mux = Unlocked /\ Mux' = t

\* A ScopedLock whose destructor leaves the mutex owned.
MuxUnlockOmitted(t) == Mux' = Mux

\* ~ScopedLock
MuxUnlock(t) == Mux' = Unlocked

(* --------------------------- the abstract map --------------------------- *)

\* A sequential map from keys to pairs: Abs[j] is the pair stored for the key
\* that handle j denotes.
AbsSet(A, k, v) ==
    [j \in Keys |-> IF keyIsEqualCB(k, j) THEN [Key |-> k, Value |-> v] ELSE A[j]]
AbsRemove(A, k) ==
    [j \in Keys |-> IF keyIsEqualCB(k, j) THEN end ELSE A[j]]
AbsEmpty == [j \in Keys |-> end]
AbsPairs(A) == {A[j] : j \in Keys} \ {end}
AbsOld(A, k) == IF A[k] = end THEN {} ELSE {A[k]}

Answer(r, o, d) == [ret |-> r, out |-> o, destroyed |-> d]
NoAnswer == Answer(FALSE, NULL, {})

\* log is one run of the destroy callbacks over the pairs of S: for each pair
\* keyDestroyCB on its key, then valueDestroyCB on its value, every pair once.
IsDestroyRun(l, S) ==
    /\ Len(l) = 2 * Cardinality(S)
    /\ \A i \in 1..Cardinality(S) :
          /\ l[2 * i - 1].cb = "keyDestroyCB"
          /\ l[2 * i].cb = "valueDestroyCB"
    /\ {[Key |-> l[2 * i - 1].arg, Value |-> l[2 * i].arg] : i \in 1..Cardinality(S)} = S

NoOp == [op |-> "none", Key |-> NULL, Value |-> NULL, ret |-> FALSE]

\* valueDestroyCB(v) reaches every reader that holds v and has not released it.
Staled(v) ==
    [u \in Threads |-> stale[u] \/ (pc[u] = "holding" /\ Value_out[u] = v)]

(* ------------------------------- Init ----------------------------------- *)

\* No function is under evaluation.
NoInput == [fn |-> "none"]
NoResult == [fn |-> "none"]

\* CacheImpl::create: an empty map, a free mutex, no call in progress.
Created ==
    /\ live = TRUE
    /\ retTo = [t \in Threads |-> "idle"]
    /\ keysOut = [k \in Keys |-> 0]
    /\ valuesOut = [v \in Values |-> 0]
    /\ Entries = {}
    /\ Mux = Unlocked
    /\ pc = [t \in Threads |-> "idle"]
    /\ Key = [t \in Threads |-> NULL]
    /\ Value = [t \in Threads |-> NULL]
    /\ Cost = [t \in Threads |-> 0]
    /\ Entry = [t \in Threads |-> end]
    /\ iter = [t \in Threads |-> {}]
    /\ ret = [t \in Threads |-> FALSE]
    /\ Value_out = [t \in Threads |-> NULL]
    /\ log = [t \in Threads |-> <<>>]
    /\ pre = [t \in Threads |-> {}]
    /\ Abs = AbsEmpty
    /\ exp = [t \in Threads |-> NoAnswer]
    /\ prevOp = NoOp
    /\ stale = [t \in Threads |-> FALSE]
    /\ mine = [t \in Threads |-> end]
    /\ distinct = TRUE

\* The cache of the concurrent runs: its callbacks are an equivalence.
Init ==
    /\ Created
    /\ CBs = "classes"
    /\ input = NoInput
    /\ result = NoResult

(* ------------------------------ callers --------------------------------- *)

\* The frame of a call that has returned is gone.
Returned(t, op, next) ==
    /\ pc' = [pc EXCEPT ![t] = next]
    /\ prevOp' = [op |-> op, Key |-> Key[t], Value |-> Value[t], ret |-> ret[t]]
    /\ Key' = [Key EXCEPT ![t] = NULL]
    /\ Value' = [Value EXCEPT ![t] = NULL]
    /\ Cost' = [Cost EXCEPT ![t] = 0]
    /\ iter' = [iter EXCEPT ![t] = {}]
    /\ ret' = [ret EXCEPT ![t] = FALSE]
    /\ log' = [log EXCEPT ![t] = <<>>]
    /\ pre' = [pre EXCEPT ![t] = {}]
    /\ exp' = [exp EXCEPT ![t] = NoAnswer]

SetPcs == {"set_lock", "set_find", "set_keyDestroy", "set_valueDestroy", "set_erase",
           "set_insert", "set_ret"}
GetPcs == {"get_lock", "get_find", "get_store", "get_ret"}
RemovePcs == {"remove_lock", "remove_find", "remove_keyDestroy", "remove_valueDestroy",
              "remove_erase", "remove_ret"}
RemoveAllPcs == {"removeAll_lock", "removeAll_next", "removeAll_keyDestroy",
                 "removeAll_valueDestroy", "removeAll_clear", "removeAll_ret"}

\* Some thread has called getAndRetain.
GetCalled ==
    \/ prevOp.op = "getAndRetain"
    \/ \E u \in Threads : pc[u] \in GetPcs \cup {"holding"}

\* A call that is not of the distinct-keys scenario ends it.
ScenarioOver ==
    /\ distinct' = FALSE
    /\ mine' = [u \in Threads |-> end]

\* A thread calls setAndRetain(k, v, c).
CallSetAndRetain(t) ==
    /\ pc[t] = "idle"
    /\ \E k \in Keys, v \in Values, c \in Costs :
          /\ Key' = [Key EXCEPT ![t] = k]
          /\ Value' = [Value EXCEPT ![t] = v]
          /\ Cost' = [Cost EXCEPT ![t] = c]
          /\ IF /\ distinct /\ mine[t] = end /\ ~GetCalled
                /\ \A u \in Threads : mine[u] = end \/ ~keyIsEqualCB(k, mine[u].Key)
             THEN /\ mine' = [mine EXCEPT ![t] = [Key |-> k, Value |-> v]]
                  /\ distinct' = TRUE
             ELSE ScenarioOver
    /\ pc' = [pc EXCEPT ![t] = "set_lock"]
    /\ UNCHANGED <<outer, tally, Entries, Mux, Entry, iter, ret, Value_out, log, pre, stale,
                   Abs, exp, prevOp>>

\* A thread calls getAndRetain(k, &out) with out holding nullptr.
CallGetAndRetain(t) ==
    /\ pc[t] = "idle"
    /\ \E k \in Keys : Key' = [Key EXCEPT ![t] = k]
    /\ Value_out' = [Value_out EXCEPT ![t] = NULL]
    /\ pc' = [pc EXCEPT ![t] = "get_lock"]
    /\ IF distinct /\ \A u \in Threads : pc[u] \notin SetPcs
       THEN UNCHANGED scenario
       ELSE ScenarioOver
    /\ UNCHANGED <<outer, tally, Entries, Mux, Value, Cost, Entry, iter, ret, log, pre, stale,
                   Abs, exp, prevOp>>

\* A thread calls remove(k).
CallRemove(t) ==
    /\ pc[t] = "idle"
    /\ \E k \in Keys : Key' = [Key EXCEPT ![t] = k]
    /\ pc' = [pc EXCEPT ![t] = "remove_lock"]
    /\ ScenarioOver
    /\ UNCHANGED <<outer, tally, Entries, Mux, Value, Cost, Entry, iter, ret, Value_out, log, pre,
                   stale, Abs, exp, prevOp>>

\* A thread calls removeAll().
CallRemoveAll(t) ==
    /\ pc[t] = "idle"
    /\ pc' = [pc EXCEPT ![t] = "removeAll_lock"]
    /\ ScenarioOver
    /\ UNCHANGED <<outer, tally, Entries, Mux, frame, Entry, iter, ret, Value_out, log, pre, stale,
                   Abs, exp, prevOp>>

(* ---------------------------- setAndRetain ------------------------------ *)

\* A setAndRetain without its ScopedLock.
setAndRetainLockOmitted(t) ==
    /\ pc[t] = "set_lock"
    /\ pc' = [pc EXCEPT ![t] = "set_find"]
    /\ pre' = [pre EXCEPT ![t] = Entries]
    /\ exp' = [exp EXCEPT ![t] = Answer(FALSE, NULL, AbsOld(Abs, Key[t]))]
    /\ Abs' = AbsSet(Abs, Key[t], Value[t])
    /\ UNCHANGED <<outer, tally, Entries, Mux, frame, Entry, iter, ret, Value_out, log,
                   prevOp, stale,
                   scenario>>

\* llvm::sys::ScopedLock L(DCache.Mux);
setAndRetainLock(t) ==
    /\ pc[t] = "set_lock"
    /\ MuxLock(t)
    /\ pc' = [pc EXCEPT ![t] = "set_find"]
    /\ pre' = [pre EXCEPT ![t] = Entries]
    /\ exp' = [exp EXCEPT ![t] = Answer(FALSE, NULL, AbsOld(Abs, Key[t]))]
    /\ Abs' = AbsSet(Abs, Key[t], Value[t])
    /\ UNCHANGED <<outer, tally, Entries, frame, Entry, iter, ret, Value_out, log, prevOp,
                   stale, scenario>>

\* auto Entry = DCache.Entries.find(CKey); if (Entry != DCache.Entries.end())
setAndRetainFind(t) ==
    /\ pc[t] = "set_find"
    /\ IF find(Key[t]) = {}
       THEN /\ Entry' = [Entry EXCEPT ![t] = end]
            /\ pc' = [pc EXCEPT ![t] = "set_insert"]
       ELSE /\ \E e \in find(Key[t]) : Entry' = [Entry EXCEPT ![t] = e]
            /\ pc' = [pc EXCEPT ![t] = "set_keyDestroy"]
    /\ UNCHANGED <<outer, tally, Entries, Mux, frame, iter, ret, Value_out, log, pre, stale, ghost>>

\* A replacing setAndRetain that destroys the old value only.
setAndRetainKeyDestroyLeft(t) ==
    /\ pc[t] = "set_keyDestroy"
    /\ pc' = [pc EXCEPT ![t] = "set_valueDestroy"]
    /\ UNCHANGED <<outer, tally, Entries, Mux, frame, Entry, iter, ret, Value_out, log,
                   pre, stale, ghost>>

\* DCache.CBs.keyDestroyCB(Entry->first.Key, nullptr);
setAndRetainKeyDestroy(t) ==
    /\ pc[t] = "set_keyDestroy"
    /\ log' = [log EXCEPT ![t] = Append(@, KeyDestroyed(Entry[t].Key))]
    /\ keysOut' = [keysOut EXCEPT ![Entry[t].Key] = @ - 1]
    /\ UNCHANGED valuesOut
    /\ pc' = [pc EXCEPT ![t] = "set_valueDestroy"]
    /\ UNCHANGED <<outer, Entries, Mux, frame, Entry, iter, ret, Value_out, pre, stale, ghost>>

\* DCache.CBs.valueDestroyCB(Entry->second, nullptr);
setAndRetainValueDestroy(t) ==
    /\ pc[t] = "set_valueDestroy"
    /\ log' = [log EXCEPT ![t] = Append(@, ValueDestroyed(Entry[t].Value))]
    /\ valuesOut' = [valuesOut EXCEPT ![Entry[t].Value] = @ - 1]
    /\ UNCHANGED keysOut
    /\ stale' = Staled(Entry[t].Value)
    /\ pc' = [pc EXCEPT ![t] = "set_erase"]
    /\ UNCHANGED <<outer, Entries, Mux, frame, Entry, iter, ret, Value_out, pre, ghost>>

\* DCache.Entries.erase(Entry);
setAndRetainErase(t) ==
    /\ pc[t] = "set_erase"
    /\ Entries' = erase(Entry[t])
    /\ pc' = [pc EXCEPT ![t] = "set_insert"]
    /\ UNCHANGED <<outer, tally, Mux, frame, Entry, iter, ret, Value_out, log, pre, stale, ghost>>

\* A setAndRetain whose assignment sits inside the if: only a key that was found
\* is stored.
setAndRetainInsertIfFound(t) ==
    /\ pc[t] = "set_insert"
    /\ Entries' = IF Entry[t] = end THEN Entries ELSE insert(Key[t], Value[t])
    /\ keysOut' = [keysOut EXCEPT ![Key[t]] = @ + 1]
    /\ valuesOut' = [valuesOut EXCEPT ![Value[t]] = @ + 1]
    /\ pc' = [pc EXCEPT ![t] = "set_ret"]
    /\ UNCHANGED <<outer, Mux, frame, Entry, iter, ret, Value_out, log, pre, stale, ghost>>

\* A setAndRetain that makes room for a pair with a cost: it drops the other
\* pairs.
setAndRetainInsertCosted(t) ==
    /\ pc[t] = "set_insert"
    /\ Entries' = IF Cost[t] > 0 THEN {[Key |-> Key[t], Value |-> Value[t]]}
                  ELSE insert(Key[t], Value[t])
    /\ keysOut' = [keysOut EXCEPT ![Key[t]] = @ + 1]
    /\ valuesOut' = [valuesOut EXCEPT ![Value[t]] = @ + 1]
    /\ pc' = [pc EXCEPT ![t] = "set_ret"]
    /\ UNCHANGED <<outer, Mux, frame, Entry, iter, ret, Value_out, log, pre, stale,
                   ghost>>

\* DCache.Entries[CKey] = Value;
setAndRetainInsert(t) ==
    /\ pc[t] = "set_insert"
    /\ Entries' = insert(Key[t], Value[t])
    /\ keysOut' = [keysOut EXCEPT ![Key[t]] = @ + 1]
    /\ valuesOut' = [valuesOut EXCEPT ![Value[t]] = @ + 1]
    /\ pc' = [pc EXCEPT ![t] = "set_ret"]
    /\ UNCHANGED <<outer, Mux, frame, Entry, iter, ret, Value_out, log, pre, stale, ghost>>

\* The closing brace: L unlocks the mutex and the call returns.
setAndRetainReturn(t) ==
    /\ pc[t] = "set_ret"
    /\ MuxUnlock(t)
    /\ Returned(t, "setAndRetain", "idle")
    /\ Entry' = [Entry EXCEPT ![t] = end]
    /\ UNCHANGED <<outer, tally, Entries, Value_out, Abs, stale, scenario>>

(* ---------------------------- getAndRetain ------------------------------ *)

\* llvm::sys::ScopedLock L(DCache.Mux);
getAndRetainLock(t) ==
    /\ pc[t] = "get_lock"
    /\ MuxLock(t)
    /\ pc' = [pc EXCEPT ![t] = "get_find"]
    /\ pre' = [pre EXCEPT ![t] = Entries]
    /\ exp' = [exp EXCEPT ![t] =
                 IF Abs[Key[t]] = end THEN Answer(FALSE, NULL, {})
                 ELSE Answer(TRUE, Abs[Key[t]].Value, {})]
    /\ UNCHANGED <<outer, tally, Entries, frame, Entry, iter, ret, Value_out, log, Abs, prevOp,
                   stale, scenario>>

\* auto Entry = DCache.Entries.find(CKey); if (Entry != DCache.Entries.end())
\* ... return false;
getAndRetainFind(t) ==
    /\ pc[t] = "get_find"
    /\ IF find(Key[t]) = {}
       THEN /\ Entry' = [Entry EXCEPT ![t] = end]
            /\ ret' = [ret EXCEPT ![t] = FALSE]
            /\ pc' = [pc EXCEPT ![t] = "get_ret"]
       ELSE /\ \E e \in find(Key[t]) : Entry' = [Entry EXCEPT ![t] = e]
            /\ ret' = ret
            /\ pc' = [pc EXCEPT ![t] = "get_store"]
    /\ UNCHANGED <<outer, tally, Entries, Mux, frame, iter, Value_out, log, pre, stale, ghost>>

\* A getAndRetain that takes the bucket out of the map as it reads it.
getAndRetainStoreTakes(t) ==
    /\ pc[t] = "get_store"
    /\ Value_out' = [Value_out EXCEPT ![t] = Entry[t].Value]
    /\ ret' = [ret EXCEPT ![t] = TRUE]
    /\ Entries' = erase(Entry[t])
    /\ pc' = [pc EXCEPT ![t] = "get_ret"]
    /\ UNCHANGED <<outer, tally, Mux, frame, Entry, iter, log, pre, stale, ghost>>

\* *Value_out = Entry->second; return true;
getAndRetainStore(t) ==
    /\ pc[t] = "get_store"
    /\ Value_out' = [Value_out EXCEPT ![t] = Entry[t].Value]
    /\ ret' = [ret EXCEPT ![t] = TRUE]
    /\ pc' = [pc EXCEPT ![t] = "get_ret"]
    /\ UNCHANGED <<outer, tally, Entries, Mux, frame, Entry, iter, log, pre, stale, ghost>>

\* L unlocks the mutex and the call returns; a caller that was given a value
\* holds it until it calls releaseValue.
getAndRetainReturn(t) ==
    /\ pc[t] = "get_ret"
    /\ MuxUnlock(t)
    /\ Returned(t, "getAndRetain", IF ret[t] THEN "holding" ELSE "idle")
    /\ stale' = [stale EXCEPT ![t] = FALSE]
    /\ UNCHANGED <<outer, tally, Entries, Entry, Value_out, Abs, scenario>>

\* A releaseValue that is the counterpart of a retain: it passes the value to
\* valueDestroyCB.
releaseValueDestroys(t) ==
    /\ pc[t] \in {"idle", "holding"}
    /\ \E v \in Values :
          /\ valuesOut' = [valuesOut EXCEPT ![v] = @ - 1]
          /\ IF pc[t] = "holding" /\ v = Value_out[t]
             THEN /\ pc' = [pc EXCEPT ![t] = "idle"]
                  /\ Value_out' = [Value_out EXCEPT ![t] = NULL]
                  /\ Entry' = [Entry EXCEPT ![t] = end]
                  /\ stale' = [stale EXCEPT ![t] = FALSE]
             ELSE UNCHANGED <<pc, Value_out, Entry, stale>>
    /\ UNCHANGED <<outer, keysOut, Entries, Mux, frame, iter, ret, log, pre, ghost>>

\* void CacheImpl::releaseValue(void *Value) { }: the body is empty. The caller
\* that held Value holds it no longer.
releaseValue(t) ==
    /\ pc[t] \in {"idle", "holding"}
    /\ \E v \in Values :
          IF pc[t] = "holding" /\ v = Value_out[t]
          THEN /\ pc' = [pc EXCEPT ![t] = "idle"]
               /\ Value_out' = [Value_out EXCEPT ![t] = NULL]
               /\ Entry' = [Entry EXCEPT ![t] = end]
               /\ stale' = [stale EXCEPT ![t] = FALSE]
          ELSE UNCHANGED <<pc, Value_out, Entry, stale>>
    /\ UNCHANGED <<outer, tally, Entries, Mux, frame, iter, ret, log, pre, ghost>>

(* ------------------------------- remove --------------------------------- *)

\* llvm::sys::ScopedLock L(DCache.Mux);
removeLock(t) ==
    /\ pc[t] = "remove_lock"
    /\ MuxLock(t)
    /\ pc' = [pc EXCEPT ![t] = "remove_find"]
    /\ pre' = [pre EXCEPT ![t] = Entries]
    /\ exp' = [exp EXCEPT ![t] =
                 Answer(Abs[Key[t]] # end, NULL, AbsOld(Abs, Key[t]))]
    /\ Abs' = AbsRemove(Abs, Key[t])
    /\ UNCHANGED <<outer, tally, Entries, frame, Entry, iter, ret, Value_out, log, prevOp,
                   stale, scenario>>

\* A remove whose last line returns true.
removeFindReturnsTrue(t) ==
    /\ pc[t] = "remove_find"
    /\ IF find(Key[t]) = {}
       THEN /\ Entry' = [Entry EXCEPT ![t] = end]
            /\ ret' = [ret EXCEPT ![t] = TRUE]
            /\ pc' = [pc EXCEPT ![t] = "remove_ret"]
       ELSE /\ \E e \in find(Key[t]) : Entry' = [Entry EXCEPT ![t] = e]
            /\ ret' = ret
            /\ pc' = [pc EXCEPT ![t] = "remove_keyDestroy"]
    /\ UNCHANGED <<outer, tally, Entries, Mux, frame, iter, Value_out, log, pre, stale, ghost>>

\* auto Entry = DCache.Entries.find(CKey); if (Entry != DCache.Entries.end())
\* ... return false;
removeFind(t) ==
    /\ pc[t] = "remove_find"
    /\ IF find(Key[t]) = {}
       THEN /\ Entry' = [Entry EXCEPT ![t] = end]
            /\ ret' = [ret EXCEPT ![t] = FALSE]
            /\ pc' = [pc EXCEPT ![t] = "remove_ret"]
       ELSE /\ \E e \in find(Key[t]) : Entry' = [Entry EXCEPT ![t] = e]
            /\ ret' = ret
            /\ pc' = [pc EXCEPT ![t] = "remove_keyDestroy"]
    /\ UNCHANGED <<outer, tally, Entries, Mux, frame, iter, Value_out, log, pre, stale, ghost>>

\* DCache.CBs.keyDestroyCB(Entry->first.Key, nullptr);
removeKeyDestroy(t) ==
    /\ pc[t] = "remove_keyDestroy"
    /\ log' = [log EXCEPT ![t] = Append(@, KeyDestroyed(Entry[t].Key))]
    /\ keysOut' = [keysOut EXCEPT ![Entry[t].Key] = @ - 1]
    /\ UNCHANGED valuesOut
    /\ pc' = [pc EXCEPT ![t] = "remove_valueDestroy"]
    /\ UNCHANGED <<outer, Entries, Mux, frame, Entry, iter, ret, Value_out, pre, stale, ghost>>

\* A remove that leaves a value alone while a reader holds it.
removeValueDestroyDeferred(t) ==
    /\ pc[t] = "remove_valueDestroy"
    /\ IF \E u \in Threads : pc[u] = "holding" /\ Value_out[u] = Entry[t].Value
       THEN UNCHANGED <<log, stale, tally>>
       ELSE /\ log' = [log EXCEPT ![t] = Append(@, ValueDestroyed(Entry[t].Value))]
            /\ valuesOut' = [valuesOut EXCEPT ![Entry[t].Value] = @ - 1]
            /\ UNCHANGED keysOut
            /\ stale' = Staled(Entry[t].Value)
    /\ pc' = [pc EXCEPT ![t] = "remove_erase"]
    /\ UNCHANGED <<outer, Entries, Mux, frame, Entry, iter, ret, Value_out, pre, ghost>>

\* DCache.CBs.valueDestroyCB(Entry->second, nullptr);
removeValueDestroy(t) ==
    /\ pc[t] = "remove_valueDestroy"
    /\ log' = [log EXCEPT ![t] = Append(@, ValueDestroyed(Entry[t].Value))]
    /\ valuesOut' = [valuesOut EXCEPT ![Entry[t].Value] = @ - 1]
    /\ UNCHANGED keysOut
    /\ stale' = Staled(Entry[t].Value)
    /\ pc' = [pc EXCEPT ![t] = "remove_erase"]
    /\ UNCHANGED <<outer, Entries, Mux, frame, Entry, iter, ret, Value_out, pre, ghost>>

\* A remove that destroys the pair and returns true without erasing the bucket.
removeEraseKeepsBucket(t) ==
    /\ pc[t] = "remove_erase"
    /\ ret' = [ret EXCEPT ![t] = TRUE]
    /\ pc' = [pc EXCEPT ![t] = "remove_ret"]
    /\ UNCHANGED <<outer, tally, Entries, Mux, frame, Entry, iter, Value_out, log, pre, stale,
                   ghost>>

\* DCache.Entries.erase(Entry); return true;
removeErase(t) ==
    /\ pc[t] = "remove_erase"
    /\ Entries' = erase(Entry[t])
    /\ ret' = [ret EXCEPT ![t] = TRUE]
    /\ pc' = [pc EXCEPT ![t] = "remove_ret"]
    /\ UNCHANGED <<outer, tally, Mux, frame, Entry, iter, Value_out, log, pre, stale, ghost>>

\* L unlocks the mutex and the call returns.
removeReturn(t) ==
    /\ pc[t] = "remove_ret"
    /\ MuxUnlock(t)
    /\ Returned(t, "remove", "idle")
    /\ Entry' = [Entry EXCEPT ![t] = end]
    /\ UNCHANGED <<outer, tally, Entries, Value_out, Abs, stale, scenario>>

(* ------------------------------ removeAll ------------------------------- *)

\* llvm::sys::ScopedLock L(DCache.Mux); and the range-for takes begin().
removeAllLock(t) ==
    /\ pc[t] = "removeAll_lock"
    /\ MuxLock(t)
    /\ pc' = [pc EXCEPT ![t] = "removeAll_next"]
    /\ iter' = [iter EXCEPT ![t] = Entries]
    /\ pre' = [pre EXCEPT ![t] = Entries]
    /\ exp' = [exp EXCEPT ![t] = Answer(FALSE, NULL, AbsPairs(Abs))]
    /\ Abs' = AbsEmpty
    /\ UNCHANGED <<outer, tally, Entries, frame, Entry, ret, Value_out, log, prevOp, stale,
                   scenario>>

\* A range-for that leaves the loop after its first bucket.
removeAllNextOnce(t) ==
    /\ pc[t] = "removeAll_next"
    /\ IF iter[t] = {} \/ log[t] # <<>>
       THEN /\ pc' = [pc EXCEPT ![t] = "removeAll_clear"]
            /\ UNCHANGED <<Entry, iter>>
       ELSE /\ \E e \in iter[t] :
                  /\ Entry' = [Entry EXCEPT ![t] = e]
                  /\ iter' = [iter EXCEPT ![t] = @ \ {e}]
            /\ pc' = [pc EXCEPT ![t] = "removeAll_keyDestroy"]
    /\ UNCHANGED <<outer, tally, Entries, Mux, frame, ret, Value_out, log, pre, stale,
                   ghost>>

\* for (auto Entry : DCache.Entries): the next bucket, in the map's own order,
\* or the end of the loop.
removeAllNext(t) ==
    /\ pc[t] = "removeAll_next"
    /\ IF iter[t] = {}
       THEN /\ pc' = [pc EXCEPT ![t] = "removeAll_clear"]
            /\ UNCHANGED <<Entry, iter>>
       ELSE /\ \E e \in iter[t] :
                  /\ Entry' = [Entry EXCEPT ![t] = e]
                  /\ iter' = [iter EXCEPT ![t] = @ \ {e}]
            /\ pc' = [pc EXCEPT ![t] = "removeAll_keyDestroy"]
    /\ UNCHANGED <<outer, tally, Entries, Mux, frame, ret, Value_out, log, pre, stale, ghost>>

\* DCache.CBs.keyDestroyCB(Entry.first.Key, nullptr);
removeAllKeyDestroy(t) ==
    /\ pc[t] = "removeAll_keyDestroy"
    /\ log' = [log EXCEPT ![t] = Append(@, KeyDestroyed(Entry[t].Key))]
    /\ keysOut' = [keysOut EXCEPT ![Entry[t].Key] = @ - 1]
    /\ UNCHANGED valuesOut
    /\ pc' = [pc EXCEPT ![t] = "removeAll_valueDestroy"]
    /\ UNCHANGED <<outer, Entries, Mux, frame, Entry, iter, ret, Value_out, pre, stale, ghost>>

\* DCache.CBs.valueDestroyCB(Entry.second, nullptr);
removeAllValueDestroy(t) ==
    /\ pc[t] = "removeAll_valueDestroy"
    /\ log' = [log EXCEPT ![t] = Append(@, ValueDestroyed(Entry[t].Value))]
    /\ valuesOut' = [valuesOut EXCEPT ![Entry[t].Value] = @ - 1]
    /\ UNCHANGED keysOut
    /\ stale' = Staled(Entry[t].Value)
    /\ pc' = [pc EXCEPT ![t] = "removeAll_next"]
    /\ UNCHANGED <<outer, Entries, Mux, frame, Entry, iter, ret, Value_out, pre, ghost>>

\* DCache.Entries.clear();
removeAllClear(t) ==
    /\ pc[t] = "removeAll_clear"
    /\ Entries' = clear
    /\ pc' = [pc EXCEPT ![t] = "removeAll_ret"]
    /\ UNCHANGED <<outer, tally, Mux, frame, Entry, iter, ret, Value_out, log, pre, stale, ghost>>

\* L unlocks the mutex and the call returns, to its caller or into destroy.
removeAllReturn(t) ==
    /\ pc[t] = "removeAll_ret"
    /\ MuxUnlock(t)
    /\ Returned(t, "removeAll", retTo[t])
    /\ retTo' = [retTo EXCEPT ![t] = "idle"]
    /\ Entry' = [Entry EXCEPT ![t] = end]
    /\ UNCHANGED <<CBs, live, input, result, tally, Entries, Value_out, Abs, stale,
                   scenario>>

(* ------------------------------- destroy -------------------------------- *)

\* A thread calls destroy(), whose first statement is removeAll();
CallDestroy(t) ==
    /\ pc[t] = "idle"
    /\ pc' = [pc EXCEPT ![t] = "removeAll_lock"]
    /\ retTo' = [retTo EXCEPT ![t] = "destroy_delete"]
    /\ ScenarioOver
    /\ UNCHANGED <<CBs, live, input, result, tally, Entries, Mux, frame, Entry, iter,
                   ret, Value_out, log, pre, stale, Abs, exp, prevOp>>

\* delete static_cast<DefaultCache *>(Impl); the map and the mutex are gone,
\* with whatever the map holds. No lock is held here.
destroyDelete(t) ==
    /\ pc[t] = "destroy_delete"
    /\ live' = FALSE
    /\ pc' = [pc EXCEPT ![t] = "destroyed"]
    /\ UNCHANGED <<CBs, retTo, input, result, tally, Entries, Mux, frame, Entry, iter,
                   ret, Value_out, log, pre, stale, ghost>>

(* ------------------------------- Next ----------------------------------- *)

\* One statement of one handler.
Step(t) ==
    \/ setAndRetainLock(t) \/ setAndRetainFind(t) \/ setAndRetainKeyDestroy(t)
    \/ setAndRetainValueDestroy(t) \/ setAndRetainErase(t) \/ setAndRetainInsert(t)
    \/ setAndRetainReturn(t)
    \/ getAndRetainLock(t) \/ getAndRetainFind(t) \/ getAndRetainStore(t)
    \/ getAndRetainReturn(t)
    \/ removeLock(t) \/ removeFind(t) \/ removeKeyDestroy(t) \/ removeValueDestroy(t)
    \/ removeErase(t) \/ removeReturn(t)
    \/ removeAllLock(t) \/ removeAllNext(t) \/ removeAllKeyDestroy(t)
    \/ removeAllValueDestroy(t) \/ removeAllClear(t) \/ removeAllReturn(t)

\* Any thread calls any operation with any arguments, or runs its call on.
Next ==
    \E t \in Threads :
        \/ CallSetAndRetain(t) \/ CallGetAndRetain(t) \/ CallRemove(t)
        \/ CallRemoveAll(t) \/ releaseValue(t)
        \/ Step(t)

Spec == Init /\ [][Next]_vars

\* Fair scheduling: a thread that can run a statement does so in the end, and
\* a thread that waits for the mutex is not passed over for ever by the threads
\* that take it again and again.
Fairness == \A t \in Threads : SF_vars(Step(t))

\* The callers of the fair runs pass one value handle and no cost: no branch of
\* a handler depends on either.
NextFair ==
    /\ Next
    /\ \A t \in Threads : Value'[t] \in {NULL, 1} /\ Cost'[t] = 0

SpecFair == Init /\ [][NextFair]_vars /\ Fairness

\* The same callers, one of which may tear the cache down. What a call does on
\* the deleted object is undefined, so a run ends at the delete.
NextDestroy ==
    /\ live
    /\ \E t \in Threads :
          \/ CallSetAndRetain(t) \/ CallGetAndRetain(t) \/ CallRemove(t)
          \/ CallRemoveAll(t) \/ releaseValue(t)
          \/ Step(t)
          \/ CallDestroy(t) \/ destroyDelete(t)

SpecDestroy == Init /\ [][NextDestroy]_vars

(* ------------------- DenseMapInfo::isEqual, evaluated ------------------- *)

\* What DenseMap passes to isEqual: key handles and its two sentinels.
Handles == Keys \cup {EmptyKey, TombstoneKey}

\* A cache made with any callback table; the map is about to compare two keys.
InitIsEqual ==
    /\ Created
    /\ CBs \in Tables
    /\ input \in [fn : {"isEqual"}, LHS : Handles, RHS : Handles]
    /\ result = NoResult

\* The map evaluates isEqual(LHS, RHS).
isEqualApply ==
    /\ input.fn = "isEqual"
    /\ result = NoResult
    /\ result' = [fn |-> "isEqual", value |-> isEqual(input.LHS, input.RHS)]
    /\ UNCHANGED <<Entries, Mux, pc, Key, Value, Cost, Entry, iter, ret, Value_out,
                   log, pre, Abs, exp, prevOp, stale, mine, distinct,
                   CBs, live, retTo, keysOut, valuesOut, input>>

SpecIsEqual == InitIsEqual /\ [][isEqualApply]_vars

(* ------------------------ Version.cpp: strings -------------------------- *)

\* A StringRef is the sequence of its characters.
DigitChars == <<"0", "1", "2", "3", "4", "5", "6", "7", "8", "9">>
IsDigit(c) == \E d \in 1..10 : DigitChars[d] = c
DigitValue(c) == (CHOOSE d \in 1..10 : DigitChars[d] = c) - 1

\* uint64_t ComponentNumber: four limbs of 16 bits, the least significant
\* first, so that every value of 64 bits is told from its cut to 32 bits.
Limb == 65536
Zero64 == <<0, 0, 0, 0>>

\* x * 10 + d in 64 bits, with the carry out of the top limb.
MulAdd(x, d) ==
    LET a0 == x[1] * 10 + d
        a1 == x[2] * 10 + a0 \div Limb
        a2 == x[3] * 10 + a1 \div Limb
        a3 == x[4] * 10 + a2 \div Limb
    IN  [value |-> <<a0 % Limb, a1 % Limb, a2 % Limb, a3 % Limb>>,
         carry |-> a3 \div Limb]

RECURSIVE consumeDigits(_, _)
\* The digits of Str read onto Result, most significant first; error when a
\* character is no digit or the number leaves 64 bits.
consumeDigits(Str, Result) ==
    IF Str = <<>> THEN [error |-> FALSE, value |-> Result]
    ELSE IF ~IsDigit(Head(Str)) THEN [error |-> TRUE, value |-> Zero64]
    ELSE LET next == MulAdd(Result, DigitValue(Head(Str)))
         IN  IF next.carry # 0 THEN [error |-> TRUE, value |-> Zero64]
             ELSE consumeDigits(Tail(Str), next.value)

\* SplitComponent.getAsInteger(10, ComponentNumber): error is its return value,
\* true when the string is empty or is not one base-10 number of 64 bits.
getAsInteger(Str) ==
    IF Str = <<>> THEN [error |-> TRUE, value |-> Zero64]
    ELSE consumeDigits(Str, Zero64)

\* The conversion of a uint64_t argument to an unsigned parameter: the low 32
\* bits.
ToUnsigned(x) == <<x[1], x[2], 0, 0>>

\* x > n for a number n below 2^31.
Greater(x, n) ==
    \/ x[4] # 0
    \/ x[3] # 0
    \/ x[2] > n \div Limb
    \/ (x[2] = n \div Limb /\ x[1] > n % Limb)

\* The index of the first '.' of Str, or 0.
FirstDot(Str) ==
    IF \E i \in 1..Len(Str) : Str[i] = "."
    THEN CHOOSE i \in 1..Len(Str) : Str[i] = "." /\ \A j \in 1..(i - 1) : Str[j] # "."
    ELSE 0

\* VersionString.split('.'): the text before the first '.' and the text after
\* it; the whole string and the empty string when there is none.
split(Str) ==
    IF FirstDot(Str) = 0 THEN <<Str, <<>> >>
    ELSE <<SubSeq(Str, 1, FirstDot(Str) - 1), SubSeq(Str, FirstDot(Str) + 1, Len(Str))>>

RECURSIVE splitVersionComponents(_)
\* while (!VersionString.empty()) { split; push_back; VersionString = Rest; }
splitVersionComponents(VersionString) ==
    IF VersionString = <<>> THEN <<>>
    ELSE <<split(VersionString)[1]>> \o splitVersionComponents(split(VersionString)[2])

(* ------------------- Version.cpp: the two parsers ----------------------- *)

\* The limits of checkVersionComponent and of the component count.
FirstLimit == 9223371
LaterLimit == 999
MostComponents == 5

\* What a parser ends in: a Version, None, or a statement that is
\* llvm_unreachable.
AVersion(Components) == [kind |-> "Version", Components |-> Components]
None == [kind |-> "None", Components |-> <<>>]
Unreachable == [kind |-> "unreachable", Components |-> <<>>]

\* auto checkVersionComponent = [&](unsigned Component, SourceRange Range):
\* true when it reaches llvm_unreachable. size is CV.Components.size().
checkVersionComponent(Component, size) ==
    Greater(ToUnsigned(Component), IF size = 0 THEN FirstLimit ELSE LaterLimit)

RECURSIVE compilerVersionLoop(_, _, _)
\* for (size_t i = 0; i < SplitComponents.size(); ++i) of
\* parseCompilerVersionString, from i on, and the statements after the loop.
compilerVersionLoop(SplitComponents, i, CV) ==
    IF i >= Len(SplitComponents)
    THEN IF Len(CV) > MostComponents THEN Unreachable ELSE AVersion(CV)
    ELSE LET SplitComponent == SplitComponents[i + 1]
             number == getAsInteger(SplitComponent)
         IN  IF SplitComponent = <<>> THEN Unreachable
             ELSE IF i = 1
                  THEN IF SplitComponent # <<"*">> THEN Unreachable
                       ELSE compilerVersionLoop(SplitComponents, i + 1, Append(CV, Zero64))
             ELSE IF number.error THEN Unreachable
             ELSE IF checkVersionComponent(number.value, Len(CV)) THEN Unreachable
             ELSE compilerVersionLoop(SplitComponents, i + 1, Append(CV, number.value))

\* Version::parseCompilerVersionString
parseCompilerVersionString(VersionString) ==
    compilerVersionLoop(splitVersionComponents(VersionString), 0, <<>>)

RECURSIVE versionLoop(_, _, _, _)
\* The loop of parseVersionString, from i on, and its return statement.
versionLoop(SplitComponents, i, TheVersion, isValidVersion) ==
    IF i >= Len(SplitComponents)
    THEN IF isValidVersion THEN AVersion(TheVersion) ELSE None
    ELSE LET SplitComponent == SplitComponents[i + 1]
             number == getAsInteger(SplitComponent)
         IN  IF SplitComponent = <<>>
             THEN versionLoop(SplitComponents, i + 1, TheVersion, FALSE)
             ELSE IF ~number.error
             THEN versionLoop(SplitComponents, i + 1, Append(TheVersion, number.value),
                              isValidVersion)
             ELSE versionLoop(SplitComponents, i + 1, TheVersion, FALSE)

\* Version::parseVersionString
parseVersionString(VersionString) ==
    IF VersionString = <<>> THEN None
    ELSE versionLoop(splitVersionComponents(VersionString), 0, <<>>, TRUE)

(* ------------------- Version.cpp: the parsers, evaluated ---------------- *)

\* The components an input is made of: nothing, '*', a letter, numbers at and
\* next to the limits, and numbers of 2^32 and more (2^32, the low half of
\* which is 0, and 2^32 + 1000).
Tokens ==
    { <<>>, <<"*">>, <<"x">>, <<"7">>, <<"9", "9", "9">>, <<"1", "0", "0", "0">>,
      <<"9", "2", "2", "3", "3", "7", "1">>, <<"9", "2", "2", "3", "3", "7", "2">>,
      <<"4", "2", "9", "4", "9", "6", "7", "2", "9", "6">>,
      <<"4", "2", "9", "4", "9", "6", "8", "2", "9", "6">> }

\* The component that fills an input up.
Filler == <<"1">>

RECURSIVE Join(_)
\* The components with a '.' between each two.
Join(components) ==
    IF components = <<>> THEN <<>>
    ELSE IF Len(components) = 1 THEN components[1]
    ELSE components[1] \o <<".">> \o Join(Tail(components))

\* The inputs: up to MaxVaried components chosen freely, then fillers, up to
\* MaxComponents components in all.
VersionStrings ==
    UNION { { Join(h \o [i \in 1..m |-> Filler]) : m \in 0..(MaxComponents - Len(h)) } :
            h \in UNION { [1..n -> Tokens] : n \in 0..MaxVaried } }

InitParse ==
    /\ Created
    /\ CBs = "classes"
    /\ input \in [fn : {"parseCompilerVersionString", "parseVersionString"},
                   VersionString : VersionStrings]
    /\ result = NoResult

cacheVars == <<Entries, Mux, pc, Key, Value, Cost, Entry, iter, ret, Value_out,
               log, pre, Abs, exp, prevOp, stale, mine, distinct,
               CBs, live, retTo, keysOut, valuesOut>>

parseCompilerVersionStringApply ==
    /\ input.fn = "parseCompilerVersionString"
    /\ result = NoResult
    /\ result' = [fn |-> input.fn, value |-> parseCompilerVersionString(input.VersionString)]
    /\ UNCHANGED <<cacheVars, input>>

parseVersionStringApply ==
    /\ input.fn = "parseVersionString"
    /\ result = NoResult
    /\ result' = [fn |-> input.fn, value |-> parseVersionString(input.VersionString)]
    /\ UNCHANGED <<cacheVars, input>>

NextParse == parseCompilerVersionStringApply \/ parseVersionStringApply

SpecParse == InitParse /\ [][NextParse]_vars

(* --------------------- Version.cpp: comparison -------------------------- *)

\* std::max(lhs.size(), rhs.size())
Max(a, b) == IF a > b THEN a ELSE b

\* i < v.size() ? v[i] : 0, with i counted from 0.
At(v, i) == IF i < Len(v) THEN v[i + 1] ELSE 0

RECURSIVE geLoopShort(_, _, _, _)
\* A loop that ends with the shorter version and lets the sizes decide.
geLoopShort(lhs, rhs, i, n) ==
    IF i >= Len(lhs) \/ i >= Len(rhs) THEN Len(lhs) >= Len(rhs)
    ELSE IF lhs[i + 1] < rhs[i + 1] THEN FALSE
    ELSE IF lhs[i + 1] > rhs[i + 1] THEN TRUE
    ELSE geLoopShort(lhs, rhs, i + 1, n)

RECURSIVE geLoop(_, _, _, _)
\* for (size_t i = 0; i < n; ++i) of operator>=, from i on, and the return
\* after it.
geLoop(lhs, rhs, i, n) ==
    IF i >= n THEN TRUE
    ELSE IF At(lhs, i) < At(rhs, i) THEN FALSE
    ELSE IF At(lhs, i) > At(rhs, i) THEN TRUE
    ELSE geLoop(lhs, rhs, i + 1, n)

\* bool operator>=(const class Version &lhs, const class Version &rhs)
operatorGE(lhs, rhs) ==
    IF lhs = <<>> THEN TRUE
    ELSE geLoop(lhs, rhs, 0, Max(Len(lhs), Len(rhs)))

\* The versions compared: up to MaxSize components, each up to MaxNumber.
Versions == UNION { [1..n -> 0..MaxNumber] : n \in 0..MaxSize }

InitCompare ==
    /\ Created
    /\ CBs = "classes"
    /\ input \in [fn : {"operator>="}, lhs : Versions, rhs : Versions]
    /\ result = NoResult

operatorGEApply ==
    /\ input.fn = "operator>="
    /\ result = NoResult
    /\ result' = [fn |-> input.fn, value |-> operatorGE(input.lhs, input.rhs)]
    /\ UNCHANGED <<cacheVars, input>>

NextCompare == operatorGEApply

SpecCompare == InitCompare /\ [][NextCompare]_vars

RECURSIVE eqLoopSameSize(_, _, _, _)
\* A loop that takes versions of different sizes for different versions.
eqLoopSameSize(lhs, rhs, i, n) ==
    IF Len(lhs) # Len(rhs) THEN FALSE
    ELSE IF i >= n THEN TRUE
    ELSE IF lhs[i + 1] # rhs[i + 1] THEN FALSE
    ELSE eqLoopSameSize(lhs, rhs, i + 1, n)

RECURSIVE eqLoop(_, _, _, _)
\* for (size_t i = 0; i < n; ++i) of operator==, from i on, and the return
\* after it.
eqLoop(lhs, rhs, i, n) ==
    IF i >= n THEN TRUE
    ELSE IF At(lhs, i) # At(rhs, i) THEN FALSE
    ELSE eqLoop(lhs, rhs, i + 1, n)

\* bool operator==(const class Version &lhs, const class Version &rhs)
operatorEQ(lhs, rhs) == eqLoop(lhs, rhs, 0, Max(Len(lhs), Len(rhs)))

\* The versions of a chain of comparisons: up to MaxChainSize components.
ShortVersions == UNION { [1..n -> 0..MaxNumber] : n \in 0..MaxChainSize }

\* A caller is about to compare two versions with ==, or three versions in a
\* chain with >=.
InitConsistent ==
    /\ Created
    /\ CBs = "classes"
    /\ input \in [fn : {"operator=="}, a : Versions, b : Versions, c : {<<>>}]
                 \cup [fn : {"chain"}, a : ShortVersions, b : ShortVersions,
                                      c : ShortVersions]
    /\ result = NoResult

\* a == b, with a >= b and b >= a beside it.
operatorEQApply ==
    /\ input.fn = "operator=="
    /\ result = NoResult
    /\ result' = [fn |-> input.fn,
                  eq |-> operatorEQ(input.a, input.b),
                  ab |-> operatorGE(input.a, input.b),
                  ba |-> operatorGE(input.b, input.a)]
    /\ UNCHANGED <<cacheVars, input>>

\* a >= b, b >= c and a >= c.
chainApply ==
    /\ input.fn = "chain"
    /\ result = NoResult
    /\ result' = [fn |-> input.fn,
                  ab |-> operatorGE(input.a, input.b),
                  bc |-> operatorGE(input.b, input.c),
                  ac |-> operatorGE(input.a, input.c)]
    /\ UNCHANGED <<cacheVars, input>>

NextConsistent == operatorEQApply \/ chainApply

SpecConsistent == InitConsistent /\ [][NextConsistent]_vars

(* ------------------------------ claims ---------------------------------- *)

\* The stored pairs whose key the callback calls equal to k.
Stored(S, k) == {e \in S : keyIsEqualCB(e.Key, k)}

Pair(k, v) == [Key |-> k, Value |-> v]

\* C1 (Uniqueness): in every reachable state, also in the middle of a call, no two
\* stored keys are equal under keyIsEqualCB; and a setAndRetain that found an
\* equivalent key stored leaves the map with as many pairs as it found, one more
\* when it found none.
Uniqueness ==
    /\ \A e1, e2 \in Entries : keyIsEqualCB(e1.Key, e2.Key) => e1 = e2
    /\ \A t \in Threads :
          pc[t] = "set_ret" =>
             Cardinality(Entries) =
                IF Stored(pre[t], Key[t]) = {} THEN Cardinality(pre[t]) + 1
                ELSE Cardinality(pre[t])

\* A setAndRetain on another handle of a stored key returns with two keys stored.
UniquenessWitness ==
    \E t \in Threads :
        /\ pc[t] = "set_ret"
        /\ \E e \in pre[t] : keyIsEqualCB(e.Key, Key[t]) /\ e.Key # Key[t]
        /\ Cardinality(Entries) = 2

\* C2 as claimed (Replace destroys old): a setAndRetain(k', v2) that follows
\* setAndRetain(k, v1) with equal(k, k') invokes keyDestroyCB once on k and
\* valueDestroyCB once on v1, no destroy callback on k' or on v2, and leaves
\* (k', v2) stored.
ReplaceDestroysOldAsClaimed ==
    \A t \in Threads :
        (/\ pc[t] = "set_ret"
         /\ prevOp.op = "setAndRetain"
         /\ keyIsEqualCB(prevOp.Key, Key[t]))
        => /\ log[t] = <<KeyDestroyed(prevOp.Key), ValueDestroyed(prevOp.Value)>>
           /\ \A i \in DOMAIN log[t] :
                 /\ log[t][i] # KeyDestroyed(Key[t])
                 /\ log[t][i] # ValueDestroyed(Value[t])
           /\ Stored(Entries, Key[t]) = {Pair(Key[t], Value[t])}

\* C2 as amended: the second call invokes keyDestroyCB once on k, then
\* valueDestroyCB once on v1, and nothing else, so no destroy callback on k'
\* unless k' is the handle k and none on v2 unless v2 is the handle v1; it leaves
\* (k', v2) stored.
ReplaceDestroysOld ==
    \A t \in Threads :
        (/\ pc[t] = "set_ret"
         /\ prevOp.op = "setAndRetain"
         /\ keyIsEqualCB(prevOp.Key, Key[t]))
        => /\ log[t] = <<KeyDestroyed(prevOp.Key), ValueDestroyed(prevOp.Value)>>
           /\ Key[t] # prevOp.Key =>
                 \A i \in DOMAIN log[t] : log[t][i] # KeyDestroyed(Key[t])
           /\ Value[t] # prevOp.Value =>
                 \A i \in DOMAIN log[t] : log[t][i] # ValueDestroyed(Value[t])
           /\ Stored(Entries, Key[t]) = {Pair(Key[t], Value[t])}

\* A setAndRetain replaces the pair of the setAndRetain before it, with another
\* handle of the key and another value.
ReplaceDestroysOldWitness ==
    \E t \in Threads :
        /\ pc[t] = "set_ret"
        /\ prevOp.op = "setAndRetain"
        /\ keyIsEqualCB(prevOp.Key, Key[t])
        /\ Key[t] # prevOp.Key
        /\ Value[t] # prevOp.Value
        /\ Len(log[t]) = 2

\* C3 (Remove round-trip): a remove(k') that follows setAndRetain(k, v) with
\* equal(k, k') returns true having invoked keyDestroyCB once on k and
\* valueDestroyCB once on v, and leaves no key equivalent to k stored; a
\* getAndRetain that follows a remove on an equivalent key returns false.
RemoveRoundTrip ==
    /\ \A t \in Threads :
          (/\ pc[t] = "remove_ret"
           /\ prevOp.op = "setAndRetain"
           /\ keyIsEqualCB(prevOp.Key, Key[t]))
          => /\ ret[t] = TRUE
             /\ log[t] = <<KeyDestroyed(prevOp.Key), ValueDestroyed(prevOp.Value)>>
             /\ Stored(Entries, prevOp.Key) = {}
    /\ \A t \in Threads :
          (/\ pc[t] = "get_ret"
           /\ prevOp.op = "remove"
           /\ keyIsEqualCB(prevOp.Key, Key[t]))
          => /\ ret[t] = FALSE
             /\ Value_out[t] = NULL

\* A remove through another handle of the key that the call before it set.
RemoveRoundTripWitness ==
    \E t \in Threads :
        /\ pc[t] = "remove_ret"
        /\ prevOp.op = "setAndRetain"
        /\ keyIsEqualCB(prevOp.Key, Key[t])
        /\ prevOp.Key # Key[t]
        /\ ret[t] = TRUE
        /\ Entries # {}

\* C4 (Absent remove): a remove(k) that found no key equivalent to k stored when
\* it took the lock returns false, has invoked no destroy callback and leaves the
\* map as it found it.
AbsentRemove ==
    \A t \in Threads :
        (pc[t] = "remove_ret" /\ Stored(pre[t], Key[t]) = {})
        => /\ ret[t] = FALSE
           /\ log[t] = <<>>
           /\ Entries = pre[t]

\* A remove on a map that the remove before it has emptied.
AbsentRemoveWitness ==
    \E t \in Threads :
        /\ pc[t] = "remove_ret"
        /\ pre[t] = {}
        /\ prevOp.op = "remove"
        /\ prevOp.ret = TRUE
        /\ ret[t] = FALSE

\* C5 (Bulk clear): when removeAll returns the map is empty and the call has
\* invoked keyDestroyCB and valueDestroyCB once for each pair that was stored
\* when it took the lock, and for nothing else; a getAndRetain that follows it
\* returns false for every key.
BulkClear ==
    /\ \A t \in Threads :
          pc[t] = "removeAll_ret" =>
             /\ Entries = {}
             /\ IsDestroyRun(log[t], pre[t])
    /\ \A t \in Threads :
          (pc[t] = "get_ret" /\ prevOp.op = "removeAll") => ret[t] = FALSE

\* A removeAll that found two pairs stored.
BulkClearWitness ==
    \E t \in Threads :
        /\ pc[t] = "removeAll_ret"
        /\ Cardinality(pre[t]) = 2
        /\ Len(log[t]) = 4

\* C6 (getAndRetain): it returns true and the value of the latest setAndRetain on
\* an equivalent key when no remove or removeAll has taken that pair since, and
\* false with *Value_out untouched otherwise; either way the map is as the call
\* found it and no destroy callback was invoked.
GetReturnsLatest ==
    \A t \in Threads :
        pc[t] = "get_ret" =>
           /\ IF Abs[Key[t]] # end
              THEN ret[t] = TRUE /\ Value_out[t] = Abs[Key[t]].Value
              ELSE ret[t] = FALSE /\ Value_out[t] = NULL
           /\ Entries = pre[t]
           /\ log[t] = <<>>

\* A getAndRetain finds the pair through another handle of its key, after a
\* remove has taken another pair.
GetReturnsLatestWitness ==
    \E t \in Threads :
        /\ pc[t] = "get_ret"
        /\ ret[t] = TRUE
        /\ Abs[Key[t]].Key # Key[t]
        /\ prevOp.op = "remove"
        /\ prevOp.ret = TRUE

\* C7 (No lost updates): while every thread has called setAndRetain at most once,
\* on pairwise non-equivalent keys, and getAndRetain is called only once those
\* calls have returned, every pair set is stored once its call has returned,
\* getAndRetain(k_i) returns true and v_i, and no call has invoked a destroy
\* callback.
NoLostUpdates ==
    distinct =>
       /\ \A u \in Threads :
             (mine[u] # end /\ pc[u] \notin SetPcs) => mine[u] \in Entries
       /\ \A t, u \in Threads :
             (/\ pc[t] = "get_ret"
              /\ mine[u] # end
              /\ keyIsEqualCB(Key[t], mine[u].Key))
             => ret[t] = TRUE /\ Value_out[t] = mine[u].Value
       /\ \A t \in Threads : log[t] = <<>>

\* Every thread has set its key, and a getAndRetain on another thread's key
\* returns that thread's value.
NoLostUpdatesWitness ==
    /\ distinct
    /\ \A u \in Threads : mine[u] # end
    /\ \E t, u \in Threads :
          /\ t # u
          /\ pc[t] = "get_ret"
          /\ keyIsEqualCB(Key[t], mine[u].Key)
          /\ Value_out[t] = mine[u].Value

LockPcs == {"set_lock", "get_lock", "remove_lock", "removeAll_lock"}
RetPcs == {"set_ret", "get_ret", "remove_ret", "removeAll_ret"}

\* The thread is between the lock acquisition and the return of an operation:
\* at a statement that reads or writes the map or invokes a callback, or at the
\* return.
InCall(t) == pc[t] \in (SetPcs \cup GetPcs \cup RemovePcs \cup RemoveAllPcs) \ LockPcs

\* C8 (Mutual exclusion): a thread between the lock acquisition and the return of
\* setAndRetain, getAndRetain, remove or removeAll owns the mutex, no other thread
\* is between the two, and the mutex is owned only by such a thread.
MutualExclusion ==
    /\ \A t \in Threads :
          InCall(t) => /\ Mux = t
                       /\ \A u \in Threads \ {t} : ~InCall(u)
    /\ Mux # Unlocked => InCall(Mux)

\* One thread is destroying a pair while another waits for the lock.
MutualExclusionWitness ==
    \E t, u \in Threads :
        /\ pc[t] \in {"set_valueDestroy", "remove_valueDestroy", "removeAll_valueDestroy"}
        /\ pc[u] \in LockPcs

\* C9 (Linearizability): every call returns what the abstract sequential map,
\* applied to the calls in the order they took the lock, answers: the same found
\* flag and value, the same remove result, and the same destroy callbacks (for
\* each pair the abstract map drops, keyDestroyCB then valueDestroyCB, once). A
\* getAndRetain that runs while a setAndRetain on an equivalent, stored key
\* waits for the lock returns true; and between calls the map holds the
\* abstract map's pairs.
Linearizable ==
    /\ \A t \in Threads :
          pc[t] \in RetPcs =>
             /\ ret[t] = exp[t].ret
             /\ (pc[t] = "get_ret" => Value_out[t] = exp[t].out)
             /\ IsDestroyRun(log[t], exp[t].destroyed)
    /\ \A t, u \in Threads :
          (/\ pc[t] = "get_ret"
           /\ pc[u] = "set_lock"
           /\ keyIsEqualCB(Key[t], Key[u])
           /\ Stored(pre[t], Key[t]) # {})
          => ret[t] = TRUE
    /\ (\A u \in Threads : ~InCall(u)) => Entries = AbsPairs(Abs)

\* A getAndRetain returns the old value while a replacing setAndRetain waits.
LinearizableWitness ==
    \E t, u \in Threads :
        /\ pc[t] = "get_ret"
        /\ pc[u] = "set_lock"
        /\ keyIsEqualCB(Key[t], Key[u])
        /\ ret[t] = TRUE
        /\ Value_out[t] # Value[u]

\* C10 (Retained-value hazard): nothing defers the destruction of a value a
\* reader holds. A reader that getAndRetain gave a value and that has not called
\* releaseValue holds a value that valueDestroyCB has been invoked on, unless the
\* pair it read is still stored.
RetainDefersNothing ==
    \A t \in Threads :
        pc[t] = "holding" => (stale[t] \/ Entry[t] \in Entries)

\* The hazard: a reader holds, unreleased, a value that another thread's call
\* has passed to valueDestroyCB.
RetainedValueDestroyed ==
    \E t \in Threads :
        /\ pc[t] = "holding"
        /\ stale[t]
        /\ Value_out[t] \in Values

\* No key handle and no value handle that setAndRetain stored is left without
\* its destroy callback.
AllDestroyed ==
    /\ \A k \in Keys : keysOut[k] = 0
    /\ \A v \in Values : valuesOut[v] = 0

\* The removeAll that returned last has had no call take the lock after it.
NoCallSinceRemoveAll ==
    /\ prevOp.op = "removeAll"
    /\ \A u \in Threads : ~InCall(u)

\* C11 as claimed (Teardown): destroy's removeAll has invoked both destroy
\* callbacks on every pair when it returns, and at the moment the storage is
\* released the map is empty and nothing that was stored is left undestroyed, in
\* every interleaving.
TeardownAsClaimed ==
    /\ \A t \in Threads :
          (pc[t] = "removeAll_ret" /\ retTo[t] = "destroy_delete")
          => Entries = {} /\ IsDestroyRun(log[t], pre[t])
    /\ ~live => (Entries = {} /\ AllDestroyed)

\* C11 as amended: destroy's removeAll has invoked both destroy callbacks on
\* every pair when it returns; at the moment the storage is released the map is
\* empty and nothing that was stored is left undestroyed, provided no call has
\* taken the lock since that removeAll returned. destroy holds no lock between
\* the two, and a setAndRetain that runs there leaves its pair in the storage.
Teardown ==
    /\ \A t \in Threads :
          (pc[t] = "removeAll_ret" /\ retTo[t] = "destroy_delete")
          => Entries = {} /\ IsDestroyRun(log[t], pre[t])
    /\ (~live /\ NoCallSinceRemoveAll) => (Entries = {} /\ AllDestroyed)

\* The storage is released right after destroy's removeAll, while a reader
\* holds a value that has been destroyed.
TeardownWitness ==
    /\ ~live
    /\ NoCallSinceRemoveAll
    /\ \E t, u \in Threads :
          /\ pc[t] = "destroyed"
          /\ pc[u] = "holding"
          /\ stale[u]

RECURSIVE Total(_, _)
\* The sum of f over the handles of S.
Total(f, S) ==
    IF S = {} THEN 0
    ELSE LET x == CHOOSE y \in S : TRUE IN f[x] + Total(f, S \ {x})

\* No call is in the middle of its work: every thread that has the lock is at
\* its return.
Settled == \A u \in Threads : InCall(u) => pc[u] \in RetPcs

\* The pairs that the thread's call has taken out of the map it found.
Left(t) ==
    CASE pc[t] \in {"set_ret", "remove_ret"} -> Stored(pre[t], Key[t])
      [] pc[t] = "removeAll_ret" -> pre[t]
      [] OTHER -> {}

\* The count, and what each call does to the pairs that leave: keyDestroyCB and
\* valueDestroyCB invocations each number the setAndRetain calls less the stored
\* pairs, and a call has passed every pair it took out of the map to both
\* callbacks once, and nothing else.
DestroyAccounts ==
    /\ Settled =>
          /\ Total(keysOut, Keys) = Cardinality(Entries)
          /\ Total(valuesOut, Values) = Cardinality(Entries)
    /\ \A t \in Threads :
          pc[t] \in RetPcs =>
             /\ IsDestroyRun(log[t], Left(t))
             /\ Entries = (pre[t] \ Left(t)) \cup
                             (IF pc[t] = "set_ret" THEN {Pair(Key[t], Value[t])} ELSE {})

\* C12 as claimed (No leak, no double destroy): the count, every pair that left
\* destroyed once at the moment it left, and no stored pair has a handle that
\* the returning call passed to a destroy callback.
NoLeakAsClaimed ==
    /\ DestroyAccounts
    /\ \A t \in Threads :
          pc[t] \in RetPcs =>
             \A e \in Entries, i \in DOMAIN log[t] :
                 /\ log[t][i] # KeyDestroyed(e.Key)
                 /\ log[t][i] # ValueDestroyed(e.Value)

\* C12 as amended: the count, every pair that left destroyed once at the moment
\* it left, and every handle destroyed as many times as setAndRetain stored it
\* less the stored pairs that hold it: a stored pair has been passed to a
\* destroy callback only through a handle that another setAndRetain call stored
\* as well.
NoLeak ==
    /\ DestroyAccounts
    /\ Settled =>
          /\ \A k \in Keys : keysOut[k] = Cardinality({e \in Entries : e.Key = k})
          /\ \A v \in Values : valuesOut[v] = Cardinality({e \in Entries : e.Value = v})

\* A setAndRetain returns having destroyed the handles it stores, with a pair
\* of another key stored beside it.
NoLeakWitness ==
    \E t \in Threads :
        /\ pc[t] = "set_ret"
        /\ log[t] = <<KeyDestroyed(Key[t]), ValueDestroyed(Value[t])>>
        /\ Pair(Key[t], Value[t]) \in Entries
        /\ Cardinality(Entries) = 2

\* C13 (Cost is inert): what setAndRetain(k, v, c) leaves in the map and the
\* destroy callbacks it invokes are a function of the map it found, k and v
\* alone, whatever c is: the pairs found, less the pair of k's key, plus (k, v),
\* and one destroy run over the pair it replaced. Between calls the map holds
\* the pairs of the abstract map, which knows no cost and drops nothing, so no
\* later result depends on a cost and no pair is evicted; the cost itself is
\* kept nowhere but in the frame of a call that has yet to take the lock.
CostInert ==
    /\ \A t \in Threads :
          pc[t] = "set_ret" =>
             /\ Entries = (pre[t] \ Stored(pre[t], Key[t])) \cup {Pair(Key[t], Value[t])}
             /\ IsDestroyRun(log[t], Stored(pre[t], Key[t]))
    /\ (\A u \in Threads : ~InCall(u)) =>
          /\ Entries = AbsPairs(Abs)
          /\ \A u \in Threads : Cost[u] > 0 => pc[u] = "set_lock"

\* A setAndRetain with a cost above zero returns with its pair stored beside
\* the pair that the setAndRetain before it stored.
CostInertWitness ==
    \E t \in Threads :
        /\ pc[t] = "set_ret"
        /\ Cost[t] = MaxCost
        /\ MaxCost > 0
        /\ prevOp.op = "setAndRetain"
        /\ Cardinality(Entries) = 2
        /\ pre[t] # {}

\* The thread is in no operation of the cache.
Outside(t) == pc[t] \in {"idle", "holding"}

Invoked(l, r) == \E i \in DOMAIN l : l[i] = r

\* C15 as claimed (Frame of single-key operations): when setAndRetain(k, v) or
\* remove(k) returns, every pair (j, w) it found with equal(k, j) false is still
\* stored and neither j nor w has been passed to a destroy callback by the call;
\* and a getAndRetain(j) that follows a setAndRetain or a remove on a key not
\* equal to j finds what was stored for j.
FrameAsClaimed ==
    /\ \A t \in Threads :
          pc[t] \in {"set_ret", "remove_ret"} =>
             \A e \in pre[t] :
                 ~keyIsEqualCB(Key[t], e.Key) =>
                    /\ e \in Entries
                    /\ ~Invoked(log[t], KeyDestroyed(e.Key))
                    /\ ~Invoked(log[t], ValueDestroyed(e.Value))
    /\ \A t \in Threads :
          (/\ pc[t] = "get_ret"
           /\ prevOp.op \in {"setAndRetain", "remove"}
           /\ ~keyIsEqualCB(prevOp.Key, Key[t]))
          => \A e \in Stored(pre[t], Key[t]) : ret[t] = TRUE /\ Value_out[t] = e.Value

\* C15 as amended: the same, except that the value handle w is passed to
\* valueDestroyCB when it is also the value handle of the pair of k that the
\* call replaces or removes.
Frame ==
    /\ \A t \in Threads :
          pc[t] \in {"set_ret", "remove_ret"} =>
             \A e \in pre[t] :
                 ~keyIsEqualCB(Key[t], e.Key) =>
                    /\ e \in Entries
                    /\ ~Invoked(log[t], KeyDestroyed(e.Key))
                    /\ Invoked(log[t], ValueDestroyed(e.Value))
                          => \E old \in Stored(pre[t], Key[t]) : old.Value = e.Value
    /\ \A t \in Threads :
          (/\ pc[t] = "get_ret"
           /\ prevOp.op \in {"setAndRetain", "remove"}
           /\ ~keyIsEqualCB(prevOp.Key, Key[t]))
          => \A e \in Stored(pre[t], Key[t]) : ret[t] = TRUE /\ Value_out[t] = e.Value

\* A remove returns true with the pair of another key still stored, whose
\* value is another handle than the one destroyed.
FrameWitness ==
    \E t \in Threads :
        /\ pc[t] = "remove_ret"
        /\ ret[t] = TRUE
        /\ \E e \in Entries :
              /\ e \in pre[t]
              /\ ~Invoked(log[t], ValueDestroyed(e.Value))

\* C16 (releaseValue is a no-op): a releaseValue(v), for any value handle v,
\* held by the caller or not, stored or not, destroyed or not, leaves the map,
\* the mutex, every call in progress, the callbacks invoked and the abstract map
\* that answers the later calls as they are; and a thread outside the handlers
\* can run it whoever owns the mutex.
ReleaseIsNoOp ==
    /\ [][\A t \in Threads :
             releaseValue(t) =>
                UNCHANGED <<Entries, Mux, Key, Value, Cost, iter, ret, log, pre,
                            keysOut, valuesOut, Abs, exp, prevOp, live>>]_vars
    /\ [](\A t \in Threads : Outside(t) => ENABLED releaseValue(t))

\* The thread that getAndRetain gave a value last has released it, the pair it
\* read is stored no more, and another thread owns the mutex.
ReleaseIsNoOpWitness ==
    /\ prevOp.op = "getAndRetain"
    /\ prevOp.ret = TRUE
    /\ \A u \in Threads : pc[u] # "holding"
    /\ Stored(Entries, prevOp.Key) = {}
    /\ Mux # Unlocked

\* C17 as claimed (Key identity): for caller keys a and b, neither a sentinel
\* of the map, isEqual(a, b) is what keyIsEqualCB(a, b) returns, for one handle
\* given twice and for callbacks that are not reflexive too.
KeyIdentityAsClaimed ==
    (/\ result.fn = "isEqual"
     /\ input.LHS \in Keys
     /\ input.RHS \in Keys)
    => (result.value <=> keyIsEqualCB(input.LHS, input.RHS))

\* C17 as amended: isEqual(a, b) is true exactly when a and b are one handle
\* or keyIsEqualCB(a, b) returns true; the callback is not asked about one
\* handle given twice, so a callback that is not reflexive does not make a key
\* differ from itself.
KeyIdentity ==
    (/\ result.fn = "isEqual"
     /\ input.LHS \in Keys
     /\ input.RHS \in Keys)
    => (result.value <=> (input.LHS = input.RHS \/ keyIsEqualCB(input.LHS, input.RHS)))

\* Two handles of one key are compared under the callbacks that know it.
KeyIdentityWitness ==
    /\ result.fn = "isEqual"
    /\ CBs = "classes"
    /\ input.LHS \in Keys
    /\ input.RHS \in Keys
    /\ input.LHS # input.RHS
    /\ result.value = TRUE

\* The string is one base-10 number: digits, and at least one.
IsNumber(Str) == Str # <<>> /\ \A i \in 1..Len(Str) : IsDigit(Str[i])

\* The number a string of digits denotes.
NumberOf(Str) == getAsInteger(Str).value

\* The limit of the i-th component of a compiler version, counted from 1.
LimitOf(i) == IF i = 1 THEN FirstLimit ELSE LaterLimit

\* C18 (Compiler-version component limits): a Version that
\* parseCompilerVersionString returns has at most 5 components, the first at
\* most 9223371, the second 0, every later one at most 999; and an input one of
\* whose components is empty, is not '*' in the second place, is no number
\* elsewhere, or is a number above its limit, whatever its 64 bits, ends in
\* llvm_unreachable and returns nothing.
CompilerVersionLimits ==
    result.fn = "parseCompilerVersionString" =>
       LET comps == splitVersionComponents(input.VersionString)
           CV == result.value
           Bad(i) == \/ comps[i] = <<>>
                     \/ i = 2 /\ comps[i] # <<"*">>
                     \/ i # 2 /\ ~IsNumber(comps[i])
                     \/ i # 2 /\ IsNumber(comps[i])
                              /\ Greater(NumberOf(comps[i]), LimitOf(i))
       IN  /\ CV.kind = "Version" =>
                 /\ Len(CV.Components) <= MostComponents
                 /\ \A i \in DOMAIN CV.Components :
                       IF i = 2 THEN CV.Components[i] = Zero64
                       ELSE ~Greater(CV.Components[i], LimitOf(i))
           /\ (\E i \in DOMAIN comps : Bad(i)) => CV.kind = "unreachable"

RECURSIVE SplitEvery(_)
\* The string cut at every '.': one component more than it has dots.
SplitEvery(Str) ==
    IF FirstDot(Str) = 0 THEN <<Str>>
    ELSE <<SubSeq(Str, 1, FirstDot(Str) - 1)>>
            \o SplitEvery(SubSeq(Str, FirstDot(Str) + 1, Len(Str)))

\* C19 (parseVersionString): it returns None exactly when the input is empty
\* or one of the components between its dots is empty or no base-10 number, a
\* dot at the start, two dots in a row and a dot at the end included; otherwise
\* it returns the Version of the numbers of the components, in order.
ParseVersionRejects ==
    result.fn = "parseVersionString" =>
       LET Str == input.VersionString
           comps == SplitEvery(Str)
           rejected == Str = <<>> \/ \E i \in DOMAIN comps : ~IsNumber(comps[i])
       IN  /\ result.value.kind = "None" <=> rejected
           /\ ~rejected =>
                 result.value = AVersion([i \in DOMAIN comps |-> NumberOf(comps[i])])

\* The version with zeros after it, n components in all.
Padded(v, n) == [i \in 1..n |-> IF i <= Len(v) THEN v[i] ELSE 0]

\* a is not below b in the lexicographic order of sequences of one length.
LexGE(a, b) ==
    \/ a = b
    \/ \E i \in DOMAIN a : a[i] > b[i] /\ \A j \in 1..(i - 1) : a[j] = b[j]

\* C20 (operator>=): it returns true whenever lhs is empty; for a non-empty lhs
\* it is the lexicographic comparison of the two versions, the shorter padded
\* with zeros, so a zero appended to either side does not change the result.
CompareGE ==
    result.fn = "operator>=" =>
       LET lhs == input.lhs
           rhs == input.rhs
           n == Max(Len(lhs), Len(rhs))
       IN  /\ lhs = <<>> => result.value = TRUE
           /\ lhs # <<>> =>
                 /\ result.value = LexGE(Padded(lhs, n), Padded(rhs, n))
                 /\ operatorGE(Append(lhs, 0), rhs) = result.value
                 /\ operatorGE(lhs, Append(rhs, 0)) = result.value

\* Two versions that differ in trailing zeros only, the shorter on the left.
CompareGEWitness ==
    /\ result.fn = "operator>="
    /\ result.value = TRUE
    /\ Len(input.lhs) = 2
    /\ input.lhs[2] # 0
    /\ input.rhs = input.lhs \o <<0>>

\* Some component of the version is not zero.
NonZero(v) == \E i \in DOMAIN v : v[i] # 0

\* C21 as claimed (Version comparison is consistent): for all versions, the
\* empty one included, a == b exactly when a >= b and b >= a, and a >= b and
\* b >= c give a >= c.
ConsistentAsClaimed ==
    /\ result.fn = "operator==" => (result.eq <=> (result.ab /\ result.ba))
    /\ result.fn = "chain" => ((result.ab /\ result.bc) => result.ac)

\* C21 as amended: a == b exactly when a >= b and b >= a, unless one of the
\* two is empty and the other has a component that is not zero: then both
\* a >= b and b >= a hold and a == b does not. a >= b and b >= c give a >= c
\* whenever b is not empty.
Consistent ==
    /\ result.fn = "operator==" =>
          IF \/ input.a = <<>> /\ NonZero(input.b)
             \/ input.b = <<>> /\ NonZero(input.a)
          THEN result.ab /\ result.ba /\ ~result.eq
          ELSE result.eq <=> (result.ab /\ result.ba)
    /\ (result.fn = "chain" /\ input.b # <<>>) =>
          ((result.ab /\ result.bc) => result.ac)

\* Two versions of different sizes are equal, and each is >= the other.
ConsistentWitness ==
    /\ result.fn = "operator=="
    /\ result.eq
    /\ result.ab
    /\ result.ba
    /\ NonZero(input.a)
    /\ Len(input.a) < Len(input.b)

====
